---- MODULE Spec2Model ----
(***************************************************************************)
(* Model of relabel.py: class Relabel copies the fields of a source netCDF *)
(* dataset into a new dataset under new names and groups and derives the   *)
(* field d_x_area with calculate_dxa.                                      *)
(*                                                                         *)
(* A masked array is a record [shape, data, mask, scale]: data is the      *)
(* row-major element list, mask[i] says element i is missing, and an       *)
(* element's value is data[i] / scale (scale = 1 for source arrays), so    *)
(* that the halves and eighths of calculate_dxa stay exact integers.       *)
(* The data of a masked element is kept 0.                                 *)
(***************************************************************************)
EXTENDS Integers, Sequences, FiniteSets, TLC

VARIABLES files, idx, pc, datasets, opened, xs_group, reach_group, err, calc

vars == <<files, idx, pc, datasets, opened, xs_group, reach_group, err, calc>>

\* Largest size of a source dimension (XS_90m, Stageloc_1km); Time steps has
\* this size.
MaxDim == 2
\* Largest number of *.nc files in the input directory.
MaxFiles == 3
\* Largest element value of the arrays handed to calculate_dxa on its own.
MaxVal == 1

\* Shapes [nt, nx] of the arrays handed to calculate_dxa on its own.
CalcShapes ==
  {<<1, 1>>, <<1, 2>>, <<2, 1>>, <<1, 3>>, <<3, 1>>, <<2, 2>>, <<1, 4>>, <<4, 1>>}

----------------------------------------------------------------------------
(* Masked arrays (numpy.ma)                                                *)

RECURSIVE Prod(_)
Prod(shape) == IF shape = <<>> THEN 1 ELSE Head(shape) * Prod(Tail(shape))

Arr(shape, data, mask, scale) ==
  [shape |-> shape, data |-> data, mask |-> mask, scale |-> scale]

EmptyArr == Arr(<<>>, <<>>, <<>>, 1)

\* Row-major position of element (t, x) of a 2-d array, read with numpy's
\* broadcasting: an axis of size 1 is repeated.
Flat(a, t, x) ==
  LET tt == IF a.shape[1] = 1 THEN 1 ELSE t
      xx == IF a.shape[2] = 1 THEN 1 ELSE x
  IN  (tt - 1) * a.shape[2] + xx

\* Row t of a 2-d array.
Row(a, t) ==
  LET nx == a.shape[2]
  IN  Arr(<<1, nx>>,
          [x \in 1..nx |-> a.data[(t - 1) * nx + x]],
          [x \in 1..nx |-> a.mask[(t - 1) * nx + x]],
          a.scale)

\* Two 2-d shapes can be broadcast together.
Broadcastable(s1, s2) ==
  \A i \in 1..2 : s1[i] = s2[i] \/ s1[i] = 1 \/ s2[i] = 1

BroadcastShape(s1, s2) ==
  [i \in 1..2 |-> IF s1[i] = 1 THEN s2[i] ELSE s1[i]]

RECURSIVE Insert(_, _)
Insert(v, s) ==
  IF s = <<>> THEN <<v>>
  ELSE IF v <= Head(s) THEN <<v>> \o s
  ELSE <<Head(s)>> \o Insert(v, Tail(s))

RECURSIVE Sorted(_)
Sorted(s) == IF s = <<>> THEN <<>> ELSE Insert(Head(s), Sorted(Tail(s)))

\* The unmasked elements of a, in array order.
RECURSIVE CompressedFrom(_, _)
CompressedFrom(a, i) ==
  IF i > Len(a.data) THEN <<>>
  ELSE (IF a.mask[i] THEN <<>> ELSE <<a.data[i]>>) \o CompressedFrom(a, i + 1)

Compressed(a) == CompressedFrom(a, 1)

\* numpy.ma.median(a) with axis=None: one scalar over the flattened unmasked
\* elements, the mean of the two middle ones when their number is even; the
\* masked constant when there is none. m2 is twice the median.
MedianMid(s) ==
  LET n == Len(s)
  IN  IF n % 2 = 1 THEN 2 * s[(n + 1) \div 2] ELSE s[n \div 2] + s[(n \div 2) + 1]

\* numpy.median on the stored data: the mask is ignored.
median_ignoring_mask(a) ==
  IF a.data = <<>> THEN [masked |-> TRUE, m2 |-> 0]
  ELSE [masked |-> FALSE, m2 |-> MedianMid(Sorted(a.data))]

median(a) ==
  LET s == Sorted(Compressed(a))
  IN  IF s = <<>> THEN [masked |-> TRUE, m2 |-> 0]
      ELSE [masked |-> FALSE, m2 |-> MedianMid(s)]

\* calculate_dxa with median(h, axis=1) and median(w, axis=1): one median per
\* time step instead of one over the whole array.
calculate_dxa_axis1(h, w) ==
  LET shape == BroadcastShape(h.shape, w.shape)
      n == shape[1] * shape[2]
      T(i) == ((i - 1) \div shape[2]) + 1
      X(i) == ((i - 1) % shape[2]) + 1
      mh(i) == median(Row(h, IF h.shape[1] = 1 THEN 1 ELSE T(i)))
      mw(i) == median(Row(w, IF w.shape[1] = 1 THEN 1 ELSE T(i)))
      m(i) == \/ h.mask[Flat(h, T(i), X(i))]
              \/ w.mask[Flat(w, T(i), X(i))]
              \/ mh(i).masked
              \/ mw(i).masked
      v(i) == (mw(i).m2 - 2 * w.data[Flat(w, T(i), X(i))])
              * (2 * h.data[Flat(h, T(i), X(i))] - mh(i).m2)
  IN  Arr(shape,
          [i \in 1..n |-> IF m(i) THEN 0 ELSE v(i)],
          [i \in 1..n |-> m(i)],
          8)

\* dH = h - median(h); return (median(w) - w) * (dH/2).  Element (t, x) is
\* masked when h or w is masked there or a median is masked; its value is
\* (2 median(w) - 2 w) * (2 h - 2 median(h)) / 8.
calculate_dxa(h, w) ==
  LET mh == median(h)
      mw == median(w)
      shape == BroadcastShape(h.shape, w.shape)
      n == shape[1] * shape[2]
      T(i) == ((i - 1) \div shape[2]) + 1
      X(i) == ((i - 1) % shape[2]) + 1
      m(i) == \/ h.mask[Flat(h, T(i), X(i))]
              \/ w.mask[Flat(w, T(i), X(i))]
              \/ mh.masked
              \/ mw.masked
      v(i) == (mw.m2 - 2 * w.data[Flat(w, T(i), X(i))])
              * (2 * h.data[Flat(h, T(i), X(i))] - mh.m2)
  IN  Arr(shape,
          [i \in 1..n |-> IF m(i) THEN 0 ELSE v(i)],
          [i \in 1..n |-> m(i)],
          8)

----------------------------------------------------------------------------
(* calculate_dxa on its own: the arguments are drawn at the start.         *)

\* An array of the given shape from a cell list; cell -1 is a masked element.
FromCells(shape, cells) ==
  Arr(shape,
      [i \in 1..Len(cells) |-> IF cells[i] < 0 THEN 0 ELSE cells[i]],
      [i \in 1..Len(cells) |-> cells[i] < 0],
      1)

ArraysOf(shape) ==
  {FromCells(shape, c) : c \in [1..Prod(shape) -> (0..MaxVal) \cup {-1}]}

NoCall == [st |-> "none", h |-> EmptyArr, w |-> EmptyArr, ret |-> EmptyArr]

InitCalc ==
  /\ files = <<>>
  /\ idx = 0
  /\ pc = "calc"
  /\ datasets = <<>>
  /\ opened = {}
  /\ xs_group = 0
  /\ reach_group = 0
  /\ err = "none"
  /\ \E s \in CalcShapes : \E h \in ArraysOf(s) : \E w \in ArraysOf(s) :
       calc = [st |-> "args", h |-> h, w |-> w, ret |-> EmptyArr]

CalcReturn ==
  /\ pc = "calc"
  /\ calc.st = "args"
  /\ calc' = [calc EXCEPT !.st = "returned", !.ret = calculate_dxa(calc.h, calc.w)]
  /\ UNCHANGED <<files, idx, pc, datasets, opened, xs_group, reach_group, err>>

NextCalc == CalcReturn

SpecCalc == InitCalc /\ [][NextCalc]_vars

----------------------------------------------------------------------------
(* Source datasets: the *.nc files of the input directory                  *)

SrcDims == {"XS_90m", "Time steps", "Stageloc_1km", "Reach", "nchar"}

ReachFields == {"Q", "S_90m", "S_1km", "GridID", "HydroID", "NextDownID"}

SrcPaths ==
  {"XS_90m", "Time steps", "Stageloc_1km", "Reach",
   "XS_Timseries/W", "XS_Timseries/H_90m", "XS_Timseries/H_1km", "XS_Timseries/Q",
   "Reach_Timseries/Q", "Reach_Timseries/S_90m", "Reach_Timseries/S_1km",
   "Reach_Timseries/GridID", "Reach_Timseries/HydroID", "Reach_Timseries/NextDownID",
   "Reach_Timeseries/Q", "Reach_Timeseries/S_90m", "Reach_Timeseries/S_1km",
   "Reach_Timeseries/GridID", "Reach_Timeseries/HydroID", "Reach_Timeseries/NextDownID"}

\* The shape of each source field: a source field is defined on the source
\* dimensions whose sizes create_dimensions copies to the dimensions the
\* destination field is declared with, so a copied array always has the
\* declared shape of its destination.
SrcShapeOf(p, t, x, s) ==
  CASE p = "XS_90m" -> <<x>>
    [] p = "Time steps" -> <<t>>
    [] p = "Stageloc_1km" -> <<s>>
    [] p = "Reach" -> <<x>>
    [] p \in {"XS_Timseries/W", "XS_Timseries/H_90m"} -> <<t, x>>
    [] p \in {"XS_Timseries/H_1km", "XS_Timseries/Q"} -> <<t, s>>
    [] p \in {"Reach_Timseries/GridID", "Reach_Timeseries/GridID"} -> <<x, s>>
    [] p \in {"Reach_Timseries/HydroID", "Reach_Timeseries/HydroID",
              "Reach_Timseries/NextDownID", "Reach_Timeseries/NextDownID"} -> <<x, x>>
    [] OTHER -> <<t, x>>

\* A number that tells the source fields apart.
SrcSeed(p) ==
  CASE p = "XS_90m" -> 1
    [] p = "Time steps" -> 2
    [] p = "Stageloc_1km" -> 3
    [] p = "Reach" -> 4
    [] p = "XS_Timseries/W" -> 5
    [] p = "XS_Timseries/H_90m" -> 6
    [] p = "XS_Timseries/H_1km" -> 8
    [] p = "XS_Timseries/Q" -> 9
    [] p \in {"Reach_Timseries/Q", "Reach_Timeseries/Q"} -> 10
    [] p \in {"Reach_Timseries/S_90m", "Reach_Timeseries/S_90m"} -> 11
    [] p \in {"Reach_Timseries/S_1km", "Reach_Timeseries/S_1km"} -> 12
    [] p \in {"Reach_Timseries/GridID", "Reach_Timeseries/GridID"} -> 13
    [] p \in {"Reach_Timseries/HydroID", "Reach_Timeseries/HydroID"} -> 15
    [] OTHER -> 16

\* Element i of source field p; the "masked" files miss the elements at the
\* positions i with (i + seed) divisible by 3.
SrcArray(p, t, x, s, variant) ==
  LET shape == SrcShapeOf(p, t, x, s)
      n == Prod(shape)
      k == SrcSeed(p)
      m(i) == variant = "masked" /\ Len(shape) = 2 /\ (i + k) % 3 = 0
  IN  Arr(shape,
          [i \in 1..n |-> IF m(i) THEN 0 ELSE (k * i * i + 3 * i + k + t + x) % 7],
          [i \in 1..n |-> m(i)],
          1)

\* The paths a file of the given variant holds.
SrcHas(variant) ==
  LET root == {"XS_90m", "Time steps", "Stageloc_1km", "Reach"}
      xs == {"XS_Timseries/W", "XS_Timseries/H_90m", "XS_Timseries/H_1km",
             "XS_Timseries/Q"}
      one == {"Reach_Timseries/" \o f : f \in ReachFields}
      other == {"Reach_Timeseries/" \o f : f \in ReachFields}
  IN  CASE variant = "noW" -> root \cup (xs \ {"XS_Timseries/W"}) \cup one \cup other
        [] variant = "Timseries" -> root \cup xs \cup one
        [] variant = "Timeseries" -> root \cup xs \cup other
        [] OTHER -> root \cup xs \cup {"Reach_Timseries/Q"}
                      \cup (other \ {"Reach_Timeseries/Q"})

\* Size of a source dimension, -1 when the file has no such dimension.
SrcDimSize(d, t, x, s, variant) ==
  CASE d = "XS_90m" -> x
    [] d = "Time steps" -> t
    [] d = "Stageloc_1km" -> s
    [] d = "Reach" -> IF variant = "noReachDim" THEN -1 ELSE x
    [] OTHER -> s

MkSource(t, x, s, variant) ==
  [title |-> <<"title", t, x, s, variant>>,
   dims |-> [d \in SrcDims |-> SrcDimSize(d, t, x, s, variant)],
   has |-> SrcHas(variant),
   arr |-> [p \in SrcPaths |-> SrcArray(p, t, x, s, variant)]]

Variants == {"masked", "noReachDim", "noW"}

Spellings == {"Timseries", "Timeseries"}

SourceFiles ==
  {MkSource(MaxDim, x, s, "ok") : x \in 1..MaxDim, s \in 1..MaxDim}
    \cup {MkSource(MaxDim, x, s, v) : x \in 1..MaxDim, s \in 1..MaxDim, v \in Spellings}
    \cup {MkSource(MaxDim, MaxDim, MaxDim, v) : v \in Variants}

----------------------------------------------------------------------------
(* Destination datasets                                                    *)

NoErr == [kind |-> "none", what |-> ""]

EmptyDs == [title |-> <<>>, groups |-> {}, dims |-> <<>>, vars |-> <<>>]

\* The current source dataset (orig_dataset) and destination (new_dataset).
orig_dataset == files[idx]
new_dataset == datasets[idx]

DimNames(ds) == {ds.dims[i].name : i \in 1..Len(ds.dims)}

DimSize(ds, name) ==
  LET i == CHOOSE j \in 1..Len(ds.dims) : ds.dims[j].name = name
  IN  ds.dims[i].size

HasVar(ds, group, name) ==
  \E i \in 1..Len(ds.vars) : ds.vars[i].group = group /\ ds.vars[i].name = name

VarIndex(ds, group, name) ==
  CHOOSE i \in 1..Len(ds.vars) : ds.vars[i].group = group /\ ds.vars[i].name = name

GetVar(ds, group, name) == ds.vars[VarIndex(ds, group, name)]

DeclaredShape(ds, dims) == [i \in 1..Len(dims) |-> DimSize(ds, dims[i])]

\* group.createVariable(name, dtype, dims, fill_value=...) followed by the
\* attribute assignments of the field.
NewVar(f) ==
  [group |-> f.group, name |-> f.name, dtype |-> f.dtype, dims |-> f.dims,
   fill |-> f.fill, units |-> f.units, long_name |-> f.long_name,
   valid_min |-> f.valid_min, valid_max |-> f.valid_max,
   written |-> FALSE, val |-> EmptyArr]

\* v[:] = data
SetVal(ds, i, data) ==
  [ds EXCEPT !.vars[i].written = TRUE, !.vars[i].val = data]

----------------------------------------------------------------------------
(* The statements of relabel_variables, in the order of the code           *)

Order ==
  <<"open_src", "open_dst", "mk_xs", "mk_reach", "title",
    "dim_XS_90m", "dim_Time_Steps", "dim_Stageloc_1km", "dim_Reach", "dim_nchar",
    "root_XS_90m", "root_Time_Steps", "root_Stageloc_1km", "root_Reach",
    "xs_width", "xs_wse", "xs_H_1km", "xs_Q", "xs_Qhat",
    "xs_dxa", "xs_dxa_calc", "xs_dxa_assign",
    "reach_Q", "reach_slope2", "reach_S_1km", "reach_GridID", "reach_HydroID",
    "reach_NextDownID">>

PosOf(p) == CHOOSE i \in 1..Len(Order) : Order[i] = p

\* relabel_variables calling create_xs_vars before create_dimensions and
\* create_root_vars.
StepAfter_xs_first(p) ==
  LET order == SubSeq(Order, 1, 5) \o SubSeq(Order, 15, 22) \o SubSeq(Order, 6, 14)
                 \o SubSeq(Order, 23, 28)
      pos == CHOOSE i \in 1..Len(order) : order[i] = p
  IN  IF pos = Len(order) THEN "loop" ELSE order[pos + 1]

\* The statement after p; "loop" is back in relabel()'s for loop.
StepAfter(p) == IF PosOf(p) = Len(Order) THEN "loop" ELSE Order[PosOf(p) + 1]

\* create_dimensions
Dim_XS_90m == [step |-> "dim_XS_90m", name |-> "XS_90m", src |-> "XS_90m"]
Dim_Time_Steps == [step |-> "dim_Time_Steps", name |-> "Time_Steps", src |-> "Time steps"]
Dim_Stageloc_1km ==
  [step |-> "dim_Stageloc_1km", name |-> "Stageloc_1km", src |-> "Stageloc_1km"]
Dim_Reach == [step |-> "dim_Reach", name |-> "Reach", src |-> "Reach"]
Dim_nchar == [step |-> "dim_nchar", name |-> "nchar", src |-> "nchar"]

Dimensions == {Dim_XS_90m, Dim_Time_Steps, Dim_Stageloc_1km, Dim_Reach, Dim_nchar}

Field(step, group, name, dtype, dims, fill, units, long_name, vmin, vmax, src) ==
  [step |-> step, group |-> group, name |-> name, dtype |-> dtype, dims |-> dims,
   fill |-> fill, units |-> units, long_name |-> long_name,
   valid_min |-> vmin, valid_max |-> vmax, src |-> src]

\* create_root_vars
Root_XS_90m ==
  Field("root_XS_90m", "/", "XS_90m", "i4", <<"XS_90m">>, "default",
        "orthogonals", "XS_90m", "unset", "unset", "XS_90m")
Root_Time_Steps ==
  Field("root_Time_Steps", "/", "Time_Steps", "i4", <<"Time_Steps">>, "default",
        "day", "Time Steps", "unset", "unset", "Time steps")
Root_Stageloc_1km ==
  Field("root_Stageloc_1km", "/", "Stageloc_1km", "i4", <<"Stageloc_1km">>, "default",
        "orthogonals", "Stageloc_1km", "unset", "unset", "Stageloc_1km")
Root_Reach ==
  Field("root_Reach", "/", "Reach", "i4", <<"Reach">>, "default",
        "RiverReaches", "Reach", "unset", "unset", "Reach")

\* create_xs_vars
XS_width ==
  Field("xs_width", "XS_Time_Series", "width", "f8", <<"Time_Steps", "XS_90m">>,
        "-999999999999", "m", "node width", "0.0", "100000", "XS_Timseries/W")
\* wse filled from the 1 km elevation field instead of H_90m.
XS_wse_from_H_1km ==
  Field("xs_wse", "XS_Time_Series", "wse", "f8", <<"Time_Steps", "XS_90m">>,
        "-999999999999", "m", "water surface elevation with respect to the geoid",
        "-1000", "100000", "XS_Timseries/H_1km")

XS_wse ==
  Field("xs_wse", "XS_Time_Series", "wse", "f8", <<"Time_Steps", "XS_90m">>,
        "-999999999999", "m", "water surface elevation with respect to the geoid",
        "-1000", "100000", "XS_Timseries/H_90m")
XS_H_1km ==
  Field("xs_H_1km", "XS_Time_Series", "H_1km", "f8", <<"Time_Steps", "Stageloc_1km">>,
        "99999.0", "m", "water surface elevation 1km", "unset", "unset",
        "XS_Timseries/H_1km")
XS_Q ==
  Field("xs_Q", "XS_Time_Series", "Q", "f8", <<"Time_Steps", "Stageloc_1km">>,
        "99999.0", "cubic meters per second", "discharge", "unset", "unset",
        "XS_Timseries/Q")
XS_Qhat ==
  Field("xs_Qhat", "XS_Time_Series", "Qhat", "f8", <<"Time_Steps">>,
        "99999.0", "??", "Qhat", "unset", "unset", "")
XS_d_x_area ==
  Field("xs_dxa", "XS_Time_Series", "d_x_area", "f8", <<"Time_Steps", "XS_90m">>,
        "-999999999999", "m^2", "change in cross-sectional area",
        "-10000000", "10000000", "")

\* Q read from the group spelled like the other five reach fields.
Reach_Q_Timeseries ==
  Field("reach_Q", "Reach_Time_Series", "Q", "f8", <<"Time_Steps", "Reach">>,
        "99999.0", "curbic meter per second", "mean discharge", "unset", "unset",
        "Reach_Timeseries/Q")

\* create_reach_vars
Reach_Q ==
  Field("reach_Q", "Reach_Time_Series", "Q", "f8", <<"Time_Steps", "Reach">>,
        "99999.0", "curbic meter per second", "mean discharge", "unset", "unset",
        "Reach_Timseries/Q")
Reach_slope2 ==
  Field("reach_slope2", "Reach_Time_Series", "slope2", "f8", <<"Time_Steps", "Reach">>,
        "-999999999999", "m/m", "enhanced water surface slope with respect to geoid",
        "unset", "unset", "Reach_Timeseries/S_90m")
Reach_S_1km ==
  Field("reach_S_1km", "Reach_Time_Series", "S_1km", "f8", <<"Time_Steps", "Reach">>,
        "99999.0", "m/m", "Slope_1km", "unset", "unset", "Reach_Timeseries/S_1km")
Reach_GridID ==
  Field("reach_GridID", "Reach_Time_Series", "GridID", "S1", <<"Reach", "nchar">>,
        "default", "unset", "unset", "unset", "unset", "Reach_Timeseries/GridID")
Reach_HydroID ==
  Field("reach_HydroID", "Reach_Time_Series", "HydroID", "f8", <<"Reach", "Reach">>,
        "99999.0", "dimensionless", "HydroID", "unset", "unset",
        "Reach_Timeseries/HydroID")
Reach_NextDownID ==
  Field("reach_NextDownID", "Reach_Time_Series", "NextDownID", "f8", <<"Reach", "Reach">>,
        "99999.0", "dimensionless", "NextDownID", "unset", "unset",
        "Reach_Timeseries/NextDownID")

RootFields == {Root_XS_90m, Root_Time_Steps, Root_Stageloc_1km, Root_Reach}
XsCopyFields == {XS_width, XS_wse, XS_H_1km, XS_Q}
ReachCopyFields ==
  {Reach_Q, Reach_slope2, Reach_S_1km, Reach_GridID, Reach_HydroID, Reach_NextDownID}
CopyFields == RootFields \cup XsCopyFields \cup ReachCopyFields

\* The dataset a field's group object belongs to: new_dataset for the root
\* fields, the dataset of self.xs_group or self.reach_group for the others
\* (0 when the instance field is still None).
GroupDs(f) ==
  CASE f.group = "/" -> idx
    [] f.group = "XS_Time_Series" -> xs_group
    [] OTHER -> reach_group

----------------------------------------------------------------------------
(* numpy.ma.mean(a, axis=1)                                                *)

RECURSIVE Fact(_)
Fact(n) == IF n <= 1 THEN 1 ELSE n * Fact(n - 1)

RECURSIVE SumSeq(_)
SumSeq(s) == IF s = <<>> THEN 0 ELSE Head(s) + SumSeq(Tail(s))

\* The mean of the unmasked elements of every row; a row without any is
\* masked. The result's scale is nx!, so that every mean is an integer.
mean_axis1(a) ==
  LET nt == a.shape[1]
      sc == Fact(a.shape[2])
      els(t) == Compressed(Row(a, t))
  IN  Arr(<<nt>>,
          [t \in 1..nt |-> IF els(t) = <<>> THEN 0
                           ELSE SumSeq(els(t)) * (sc \div Len(els(t)))],
          [t \in 1..nt |-> els(t) = <<>>],
          sc)

----------------------------------------------------------------------------
(* Relabel                                                                 *)

\* __init__
Init ==
  /\ files = <<>>
  /\ idx = 0
  /\ pc = "loop"
  /\ datasets = <<>>
  /\ opened = {}
  /\ xs_group = 0
  /\ reach_group = 0
  /\ err = NoErr
  /\ calc = NoCall

\* An exception leaves relabel_variables and, uncaught, relabel().
Raise(kind, what) ==
  /\ pc' = "crashed"
  /\ err' = [kind |-> kind, what |-> what]

Advance ==
  /\ pc' = StepAfter(pc)
  /\ err' = err

\* relabel: for nc_file in nc_files: self.relabel_variables(nc_file)
\* get_nc_files returns the generator of glob('*.nc'): the loop draws the
\* next file of the input directory, or finds the directory exhausted.
\* files holds the files drawn so far.
Loop ==
  /\ pc = "loop"
  /\ \/ /\ Len(files) < MaxFiles
        /\ \E f \in SourceFiles : files' = Append(files, f)
        /\ idx' = idx + 1
        /\ pc' = Order[1]
     \/ /\ files' = files
        /\ idx' = idx
        /\ pc' = "done"
  /\ UNCHANGED <<datasets, opened, xs_group, reach_group, err, calc>>

\* orig_dataset = Dataset(file, "r", format="NETCDF4")
OpenSrc ==
  /\ pc = "open_src"
  /\ opened' = opened \cup {<<"src", idx>>}
  /\ Advance
  /\ UNCHANGED <<files, idx, datasets, xs_group, reach_group, calc>>

\* new_dataset = Dataset(out_file, "w", format="NETCDF4")
OpenDst ==
  /\ pc = "open_dst"
  /\ datasets' = [i \in 1..idx |-> IF i = idx THEN EmptyDs ELSE datasets[i]]
  /\ opened' = opened \cup {<<"dst", idx>>}
  /\ Advance
  /\ UNCHANGED <<files, idx, xs_group, reach_group, calc>>

\* The group object kept from the first file: self.xs_group is bound only
\* while it is None.
MkXsGroup_once ==
  /\ pc = "mk_xs"
  /\ datasets' = [datasets EXCEPT ![idx].groups = @ \cup {"XS_Time_Series"}]
  /\ xs_group' = IF xs_group = 0 THEN idx ELSE xs_group
  /\ Advance
  /\ UNCHANGED <<files, idx, opened, reach_group, calc>>

\* self.xs_group = new_dataset.createGroup("XS_Time_Series")
MkXsGroup ==
  /\ pc = "mk_xs"
  /\ datasets' = [datasets EXCEPT ![idx].groups = @ \cup {"XS_Time_Series"}]
  /\ xs_group' = idx
  /\ Advance
  /\ UNCHANGED <<files, idx, opened, reach_group, calc>>

\* self.reach_group = new_dataset.createGroup("Reach_Time_Series")
MkReachGroup ==
  /\ pc = "mk_reach"
  /\ datasets' = [datasets EXCEPT ![idx].groups = @ \cup {"Reach_Time_Series"}]
  /\ reach_group' = idx
  /\ Advance
  /\ UNCHANGED <<files, idx, opened, xs_group, calc>>

\* new_dataset.title = orig_dataset.title
SetTitle ==
  /\ pc = "title"
  /\ datasets' = [datasets EXCEPT ![idx].title = orig_dataset.title]
  /\ Advance
  /\ UNCHANGED <<files, idx, opened, xs_group, reach_group, calc>>

\* new_dataset.createDimension(name, orig_dataset.dimensions[src].size)
CreateDimension(d) ==
  /\ pc = d.step
  /\ IF orig_dataset.dims[d.src] < 0
       THEN /\ Raise("KeyError", d.src)
            /\ datasets' = datasets
       ELSE /\ datasets' = [datasets EXCEPT ![idx].dims =
                              Append(@, [name |-> d.name, size |-> orig_dataset.dims[d.src]])]
            /\ Advance
  /\ UNCHANGED <<files, idx, opened, xs_group, reach_group, calc>>

\* createVariable: the group object must exist and every dimension must have
\* been created in the dataset.
CanCreate(f) ==
  /\ GroupDs(f) # 0
  /\ \A i \in 1..Len(f.dims) : f.dims[i] \in DimNames(datasets[GroupDs(f)])

CreateFailure(f) ==
  IF GroupDs(f) = 0 THEN Raise("AttributeError", f.group)
  ELSE Raise("ValueError", "cannot find dimension")

AddVar(f) == [datasets[GroupDs(f)] EXCEPT !.vars = Append(@, NewVar(f))]

\* v = group.createVariable(...); attributes; v[:] = orig_dataset[src][:]
CopyField(f) ==
  /\ pc = f.step
  /\ IF ~CanCreate(f)
       THEN /\ CreateFailure(f)
            /\ datasets' = datasets
       ELSE LET g == GroupDs(f)
                ds == AddVar(f)
                data == orig_dataset.arr[f.src]
            IN  IF f.src \notin orig_dataset.has
                  THEN /\ Raise("IndexError", f.src)
                       /\ datasets' = [datasets EXCEPT ![g] = ds]
                ELSE /\ datasets' = [datasets EXCEPT ![g] = SetVal(ds, Len(ds.vars), data)]
                     /\ Advance
  /\ UNCHANGED <<files, idx, opened, xs_group, reach_group, calc>>

\* qhat_v = ...createVariable("Qhat", ...); qhat_v[:] = mean(q_v[:], axis=1)
Qhat ==
  /\ pc = "xs_Qhat"
  /\ IF ~CanCreate(XS_Qhat)
       THEN /\ CreateFailure(XS_Qhat)
            /\ datasets' = datasets
       ELSE LET g == xs_group
                ds == AddVar(XS_Qhat)
            IN  IF ~HasVar(ds, "XS_Time_Series", "Q")
                  THEN /\ Raise("NameError", "q_v")
                       /\ datasets' = [datasets EXCEPT ![g] = ds]
                ELSE /\ datasets' = [datasets EXCEPT ![g] = SetVal(ds, Len(ds.vars),
                                       mean_axis1(GetVar(ds, "XS_Time_Series", "Q").val))]
                     /\ Advance
  /\ UNCHANGED <<files, idx, opened, xs_group, reach_group, calc>>

\* dxa_v = self.xs_group.createVariable("d_x_area", ...) and its attributes
CreateDxa ==
  /\ pc = "xs_dxa"
  /\ IF ~CanCreate(XS_d_x_area)
       THEN /\ CreateFailure(XS_d_x_area)
            /\ datasets' = datasets
       ELSE /\ datasets' = [datasets EXCEPT ![xs_group] = AddVar(XS_d_x_area)]
            /\ Advance
  /\ UNCHANGED <<files, idx, opened, xs_group, reach_group, calc>>

\* The two fields create_xs_vars hands to calculate_dxa as h and w.
DxaH == "H_1km"
DxaW == "width"

\* self.calculate_dxa(h_1km_v, width_v), on the arrays the two variables
\* hold: the operands must broadcast, or numpy raises ValueError.
CallCalculateDxa ==
  /\ pc = "xs_dxa_calc"
  /\ LET ds == datasets[xs_group]
     IN  IF ~(HasVar(ds, "XS_Time_Series", DxaH) /\ HasVar(ds, "XS_Time_Series", DxaW))
           THEN /\ Raise("NameError", "h_1km_v")
                /\ calc' = calc
         ELSE LET h == GetVar(ds, "XS_Time_Series", DxaH).val
                  w == GetVar(ds, "XS_Time_Series", DxaW).val
              IN  IF ~Broadcastable(h.shape, w.shape)
                    THEN /\ Raise("ValueError", "operands could not be broadcast")
                         /\ calc' = [st |-> "raised", h |-> h, w |-> w, ret |-> EmptyArr]
                    ELSE /\ Advance
                         /\ calc' = [st |-> "returned", h |-> h, w |-> w,
                                     ret |-> calculate_dxa(h, w)]
  /\ UNCHANGED <<files, idx, datasets, opened, xs_group, reach_group>>

\* dxa_v[:] = <the value calculate_dxa returned>: a value with more elements
\* than the variable's declared shape holds is refused with ValueError.
AssignDxa ==
  /\ pc = "xs_dxa_assign"
  /\ LET ds == datasets[xs_group]
         i == VarIndex(ds, "XS_Time_Series", "d_x_area")
     IN  IF calc.ret.shape # DeclaredShape(ds, XS_d_x_area.dims)
           THEN /\ Raise("ValueError", "shape")
                /\ datasets' = datasets
           ELSE /\ datasets' = [datasets EXCEPT ![xs_group] = SetVal(ds, i, calc.ret)]
                /\ Advance
  /\ calc' = NoCall
  /\ UNCHANGED <<files, idx, opened, xs_group, reach_group>>

Next ==
  \/ Loop
  \/ OpenSrc
  \/ OpenDst
  \/ MkXsGroup
  \/ MkReachGroup
  \/ SetTitle
  \/ \E d \in Dimensions : CreateDimension(d)
  \/ \E f \in CopyFields : CopyField(f)
  \/ Qhat
  \/ CreateDxa
  \/ CallCalculateDxa
  \/ AssignDxa

Spec == Init /\ [][Next]_vars

----------------------------------------------------------------------------
(* Properties of calculate_dxa (specification SpecCalc)                    *)

UnmaskedIdx(a) == {i \in 1..Len(a.data) : ~a.mask[i]}

AllMasked(a) == UnmaskedIdx(a) = {}

NoMasked(a) == UnmaskedIdx(a) = 1..Len(a.data)

\* Twice the median of the unmasked elements, by rank: the sum of the lower
\* median (the least value with at least half of the elements at or below
\* it) and the upper median (the greatest value with at least half at or above).
RankMedian2(a) ==
  LET U == UnmaskedIdx(a)
      n == Cardinality(U)
      vals == {a.data[i] : i \in U}
      below(v) == Cardinality({i \in U : a.data[i] <= v})
      above(v) == Cardinality({i \in U : a.data[i] >= v})
      lows == {v \in vals : 2 * below(v) >= n}
      highs == {v \in vals : 2 * above(v) >= n}
      lo == CHOOSE v \in lows : \A u \in lows : v <= u
      hi == CHOOSE v \in highs : \A u \in highs : v >= u
  IN  lo + hi

LitH == Arr(<<2, 2>>, <<1, 3, 5, 7>>, <<FALSE, FALSE, FALSE, FALSE>>, 1)
LitW == Arr(<<2, 2>>, <<2, 4, 6, 8>>, <<FALSE, FALSE, FALSE, FALSE>>, 1)
\* [[-4.5, -0.5], [-0.5, -4.5]] in eighths
LitDxa == Arr(<<2, 2>>, <<-36, -4, -4, -36>>, <<FALSE, FALSE, FALSE, FALSE>>, 8)

\* C2: for h and w of equal shape, calculate_dxa returns an array of that
\* shape whose element at every position unmasked in both is
\* (median(w) - w) * ((h - median(h)) / 2), each median being the one scalar
\* median of all unmasked elements of the whole array; and the literal
\* h = [[1,3],[5,7]], w = [[2,4],[6,8]] gives [[-4.5,-0.5],[-0.5,-4.5]].
C2_GlobalMedianFormula ==
  /\ calc.st = "returned" /\ calc.h.shape = calc.w.shape =>
       /\ calc.ret.shape = calc.h.shape
       /\ calc.ret.scale = 8
       /\ LET both == UnmaskedIdx(calc.h) \cap UnmaskedIdx(calc.w)
              mh2 == IF both = {} THEN 0 ELSE RankMedian2(calc.h)
              mw2 == IF both = {} THEN 0 ELSE RankMedian2(calc.w)
          IN  \A i \in both :
                /\ ~calc.ret.mask[i]
                /\ calc.ret.data[i] = (mw2 - 2 * calc.w.data[i]) * (2 * calc.h.data[i] - mh2)
  /\ calculate_dxa(LitH, LitW) = LitDxa

\* A 2 x 2 call without masked elements whose median of h falls between two
\* elements and whose result is not all zero.
C2_Witness ==
  /\ pc = "calc"
  /\ calc.st = "returned"
  /\ calc.h.shape = <<2, 2>>
  /\ NoMasked(calc.h) /\ NoMasked(calc.w)
  /\ RankMedian2(calc.h) % 2 = 1
  /\ \E i \in 1..4 : calc.ret.data[i] # 0

\* The array a with v stored under every masked element.
Refill(a, v) == [a EXCEPT !.data = [i \in 1..Len(a.data) |-> IF a.mask[i] THEN v ELSE a.data[i]]]

\* C3: every position masked in h or in w is masked in the result; what is
\* stored under a masked element does not change the result (masked elements
\* do not contribute to a median); a fully masked input gives a fully masked
\* result of the same shape, returned as a value.
C3_MaskPropagation ==
  calc.st = "returned" /\ calc.h.shape = calc.w.shape =>
       /\ \A i \in 1..Len(calc.h.data) :
            calc.h.mask[i] \/ calc.w.mask[i] => calc.ret.mask[i]
       /\ calc.ret = calculate_dxa(Refill(calc.h, MaxVal + 1), Refill(calc.w, MaxVal + 1))
       /\ AllMasked(calc.h) \/ AllMasked(calc.w) =>
            AllMasked(calc.ret) /\ calc.ret.shape = calc.h.shape

\* A call in which a position is masked in h only and another position is
\* unmasked in the result.
C3_Witness ==
  /\ pc = "calc"
  /\ calc.st = "returned"
  /\ \E i, j \in 1..Len(calc.h.data) :
       /\ calc.h.mask[i] /\ ~calc.w.mask[i] /\ calc.ret.mask[i]
       /\ ~calc.ret.mask[j]

----------------------------------------------------------------------------
(* Properties of relabel (specification Spec)                              *)

\* relabel_variables has returned for file k.
Completed(k) == k \in 1..Len(datasets) /\ (k < idx \/ pc \in {"loop", "done"})

Written(ds, group, name) == HasVar(ds, group, name) /\ GetVar(ds, group, name).written

XsGroup == "XS_Time_Series"
ReachGroup == "Reach_Time_Series"

\* C1: for a source whose W and H_90m have the same shape and no masked
\* element, once relabel_variables has returned the destination d_x_area has
\* that shape and equals calculate_dxa(H_90m, W).
C1_DxaFromH90m ==
  \A k \in 1..Len(datasets) :
    LET src == files[k]
        w == src.arr["XS_Timseries/W"]
        h90 == src.arr["XS_Timseries/H_90m"]
    IN  (/\ Completed(k)
         /\ {"XS_Timseries/W", "XS_Timseries/H_90m"} \subseteq src.has
         /\ w.shape = h90.shape
         /\ NoMasked(w) /\ NoMasked(h90))
        => /\ Written(datasets[k], XsGroup, "d_x_area")
           /\ GetVar(datasets[k], XsGroup, "d_x_area").val = calculate_dxa(h90, w)

\* C4: an error raised while one file is processed never ends relabel():
\* control is back in the loop over the remaining files.
C4_ErrorConfinedToFile == err.kind # "none" => pc # "crashed"

\* C5: when relabel_variables has been left, by return or by error, no
\* dataset is open, so every open dataset belongs to the file being processed
\* and none is open when relabel() ends.
C5_AllClosedOnExit ==
  /\ pc \in {"loop", "done", "crashed"} => opened = {}
  /\ \A o \in opened : o[2] = idx

\* The source field each copied destination field is to hold.
CopiedFrom ==
  {<<"/", "XS_90m", "XS_90m">>, <<"/", "Time_Steps", "Time steps">>,
   <<"/", "Stageloc_1km", "Stageloc_1km">>, <<"/", "Reach", "Reach">>,
   <<XsGroup, "width", "XS_Timseries/W">>, <<XsGroup, "wse", "XS_Timseries/H_90m">>,
   <<XsGroup, "H_1km", "XS_Timseries/H_1km">>, <<XsGroup, "Q", "XS_Timseries/Q">>,
   <<ReachGroup, "Q", "Reach_Timseries/Q">>,
   <<ReachGroup, "slope2", "Reach_Timeseries/S_90m">>,
   <<ReachGroup, "S_1km", "Reach_Timeseries/S_1km">>,
   <<ReachGroup, "GridID", "Reach_Timeseries/GridID">>,
   <<ReachGroup, "HydroID", "Reach_Timeseries/HydroID">>,
   <<ReachGroup, "NextDownID", "Reach_Timeseries/NextDownID">>}

\* The field of the code's table with the given destination group and name.
Configured(group, name) ==
  CHOOSE f \in CopyFields : f.group = group /\ f.name = name

AllFields == CopyFields \cup {XS_Qhat, XS_d_x_area}

\* C7: the destination writes of one file follow the dependency order: no
\* dimension is created twice, every field that exists or is about to be
\* created names only dimensions already created, no statement fails for
\* want of an earlier one, and when calculate_dxa is called both fields it
\* is computed from have been written to the destination.
C7_DependencyOrder ==
  /\ \A k \in {idx} \cap (1..Len(datasets)) :
       LET ds == datasets[k]
       IN  /\ \A i, j \in 1..Len(ds.dims) : ds.dims[i].name = ds.dims[j].name => i = j
           /\ \A i \in 1..Len(ds.vars) : \A j \in 1..Len(ds.vars[i].dims) :
                ds.vars[i].dims[j] \in DimNames(ds)
  /\ \A f \in AllFields : pc = f.step =>
       /\ {f.dims[j] : j \in 1..Len(f.dims)} \subseteq DimNames(new_dataset)
       /\ DimNames(new_dataset) = {"XS_90m", "Time_Steps", "Stageloc_1km", "Reach", "nchar"}
  /\ pc = "xs_dxa_calc" \/ (calc.st # "none" /\ pc # "calc") =>
       /\ Written(new_dataset, XsGroup, DxaH)
       /\ Written(new_dataset, XsGroup, DxaW)
  /\ err.kind \notin {"NameError", "AttributeError"}
  /\ err.what # "cannot find dimension"

\* calculate_dxa is about to be called with the five dimensions created.
C7_Witness ==
  /\ pc = "xs_dxa_calc"
  /\ Len(new_dataset.dims) = 5
  /\ Written(new_dataset, XsGroup, "width")

\* C8: at every call of calculate_dxa by create_xs_vars, h and w have the
\* same shape, the result has that shape, and it is the declared shape
\* (Time_Steps, XS_90m) of d_x_area.
C8_CallShapes ==
  calc.st \in {"returned", "raised"} /\ pc # "calc" =>
    /\ calc.h.shape = calc.w.shape
    /\ calc.st = "returned"
    /\ calc.ret.shape = calc.h.shape
    /\ calc.ret.shape = DeclaredShape(new_dataset, XS_d_x_area.dims)

\* C9: the destination of a file depends on that file alone: from the first
\* field statement on, xs_group and reach_group are groups of the file's own
\* destination, and two files with the same content, whatever was processed
\* before each, have the same destination content whenever relabel_variables
\* has returned.
C9_FileAlone ==
  /\ \A f \in AllFields : pc = f.step => xs_group = idx /\ reach_group = idx
  /\ pc \in {"xs_dxa_calc", "xs_dxa_assign"} => xs_group = idx
  /\ pc \in {"loop", "done"} =>
       \A i, j \in 1..Len(datasets) : files[i] = files[j] => datasets[i] = datasets[j]

\* The same content processed first and again after a different file.
C9_Witness ==
  /\ Len(datasets) = 3
  /\ Completed(3)
  /\ files[1] = files[3]
  /\ files[2] # files[1]
  /\ Len(datasets[3].vars) = 16

ReachPaths(spelling) == {"Reach_" \o spelling \o "/" \o f : f \in ReachFields}

\* All reach fields of the source live under one of the two group names.
SingleSpelled(src) ==
  \E a, b \in Spellings :
    a # b /\ ReachPaths(a) \subseteq src.has /\ ReachPaths(b) \cap src.has = {}

ReachWritten(ds) ==
  {n \in {"Q", "slope2", "S_1km", "GridID", "HydroID", "NextDownID"} : Written(ds, ReachGroup, n)}

XsAllWritten(ds) ==
  \A n \in {"width", "wse", "H_1km", "Q", "Qhat", "d_x_area"} : Written(ds, XsGroup, n)

====
